---- MODULE Spec2Model ----
(***************************************************************************)
(* Model of the Cliente REST resource: the clientes table with its UNIQUE  *)
(* email constraint, the Marshmallow schema that validates request bodies, *)
(* and the create / update / delete handlers of app/routes.py, each split  *)
(* at the point where the handler stops reading the store and commits,     *)
(* with the get and list handlers, which only read.                        *)
(*                                                                         *)
(* Text values are sequences of one-character strings, so that length,     *)
(* strip() and the email grammar are computed on the characters.           *)
(***************************************************************************)
EXTENDS Integers, Sequences, FiniteSets, TLC

\* ------------------------------------------------------------------ bounds
MaxId == 2
MaxTime == 1
MaxBatch == 2

\* -------------------------------------------------------- program constants
NombreMin == 1
NombreMax == 100
EmailMax == 120
TelefonoMax == 20
DefaultPage == 1
DefaultPerPage == 10
PerPageMax == 100

\* ------------------------------------------------------------- JSON values
Null == <<"NULL">>
Absent == <<"ABSENT">>

Activo == <<"a", "c", "t", "i", "v", "o">>
Inactivo == <<"i", "n", "a", "c", "t", "i", "v", "o">>
Otro == <<"o", "t", "r", "o">>

Ana == <<"A", "n", "a">>
Luz == <<"L", "u", "z">>
Blank == <<" ", " ">>

EmailA == <<"a", "@", "x", ".", "c", "o">>
EmailB == <<"b", "@", "x", ".", "c", "o">>
EmailBad == <<"a", ".", "c", "o">>

Tel1 == <<"5", "5">>

\* Values at the edge of each length rule.
Filled(ch, n) == [i \in 1..n |-> ch]
Padded(s, n) == [i \in 1..n |-> IF i <= Len(s) THEN s[i] ELSE " "]

Empty == <<>>
NombreFull == Filled("a", NombreMax)
NombreOver == Filled("a", NombreMax + 1)
NombrePaddedFull == Padded(Ana, NombreMax)
NombrePaddedOver == Padded(Ana, NombreMax + 1)
EmailFull == Filled("a", EmailMax - Len(EmailA) + 1) \o Tail(EmailA)
EmailOver == Filled("a", EmailMax - Len(EmailA) + 2) \o Tail(EmailA)
TelFull == Filled("5", TelefonoMax)
TelOver == Filled("5", TelefonoMax + 1)

Fields == {"nombre", "email", "telefono", "estado"}

Letters == {"a", "b", "c", "i", "n", "o", "r", "t", "u", "v", "x", "z", "A", "L"}
Digits == {"5"}
Whitespace == {" "}

\* ------------------------------------------------------------ text helpers
Min(a, b) == IF a < b THEN a ELSE b

IsText(v) == v # Null /\ v # Absent

RECURSIVE LStrip(_)
LStrip(s) == IF s # <<>> /\ Head(s) \in Whitespace THEN LStrip(Tail(s)) ELSE s

RECURSIVE RStrip(_)
RStrip(s) ==
    IF s # <<>> /\ s[Len(s)] \in Whitespace THEN RStrip(SubSeq(s, 1, Len(s) - 1)) ELSE s

Strip(s) == RStrip(LStrip(s))

\* Python truthiness of a loaded text value: None and "" are falsy.
Truthy(v) == v # Absent /\ v # Null /\ v # <<>>

Positions(s, ch) == {i \in 1..Len(s) : s[i] = ch}

RECURSIVE MaxOf(_)
MaxOf(S) ==
    IF S = {} THEN 0
    ELSE LET x == CHOOSE y \in S : TRUE
             m == MaxOf(S \ {x})
         IN IF x > m THEN x ELSE m

\* validate.Email: a dot-atom local part, "@", and a dotted domain whose
\* last label has at least two letters.
ValidLabelSeq(s) ==
    /\ s # <<>>
    /\ s[1] # "." /\ s[Len(s)] # "."
    /\ \A i \in 1..Len(s) : s[i] \in Letters \cup Digits \cup {"."}
    /\ \A i \in 1..(Len(s) - 1) : ~(s[i] = "." /\ s[i + 1] = ".")

ValidEmailText(s) ==
    /\ Positions(s, "@") # {}
    /\ LET at == MaxOf(Positions(s, "@"))
           user == SubSeq(s, 1, at - 1)
           domain == SubSeq(s, at + 1, Len(s))
           dots == Positions(domain, ".")
       IN /\ ValidLabelSeq(user)
          /\ ValidLabelSeq(domain)
          /\ dots # {}
          /\ Len(domain) - MaxOf(dots) >= 2
          /\ \A i \in (MaxOf(dots) + 1)..Len(domain) : domain[i] \in Letters


\* ------------------------------------------------------------ request data
\* A JSON object of the request body: each known key carries its value or
\* Absent; otros holds the keys the schema does not load (id, fecha_*).
Dict(n, e, t, s) ==
    [nombre |-> n, email |-> e, telefono |-> t, estado |-> s, otros |-> {}]

Keys(d) == {f \in Fields : d[f] # Absent}

IsEmptyDict(d) == Keys(d) = {} /\ d.otros = {}

NoIdx == -1
NoId == 0

\* ----------------------------------------------------------- field schema
\* A length rule applied to the trimmed text.
NombreFieldFails_Trimmed(v, partial) ==
    IF v = Absent THEN ~partial
    ELSE IF v = Null THEN TRUE
    ELSE Len(Strip(v)) < NombreMin \/ Len(Strip(v)) > NombreMax

NombreFieldFails(v, partial) ==
    IF v = Absent THEN ~partial
    ELSE IF v = Null THEN TRUE
    ELSE Len(v) < NombreMin \/ Len(v) > NombreMax

EmailFieldFails(v, partial) ==
    IF v = Absent THEN ~partial
    ELSE IF v = Null THEN TRUE
    ELSE ~ValidEmailText(v) \/ Len(v) > EmailMax

TelefonoFieldFails(v) ==
    IF v = Absent \/ v = Null THEN FALSE ELSE Len(v) > TelefonoMax

\* A rule that takes any text for an estado.
EstadoFieldFails_AnyText(v) ==
    IF v = Absent THEN FALSE ELSE v = Null

EstadoFieldFails(v) ==
    IF v = Absent THEN FALSE
    ELSE IF v = Null THEN TRUE
    ELSE v \notin {Activo, Inactivo}

\* A load that stops at the first key that fails its rule.
FieldErrors_FirstOnly(d, partial) ==
    IF NombreFieldFails(d.nombre, partial) THEN {"nombre"}
    ELSE IF EmailFieldFails(d.email, partial) THEN {"email"}
    ELSE IF TelefonoFieldFails(d.telefono) THEN {"telefono"}
    ELSE IF EstadoFieldFails(d.estado) THEN {"estado"}
    ELSE d.otros

\* The keys of one object that fail their field rule; every field is tried.
FieldErrors(d, partial) ==
    {f \in Fields :
        \/ f = "nombre" /\ NombreFieldFails(d.nombre, partial)
        \/ f = "email" /\ EmailFieldFails(d.email, partial)
        \/ f = "telefono" /\ TelefonoFieldFails(d.telefono)
        \/ f = "estado" /\ EstadoFieldFails(d.estado)}
    \cup d.otros

\* The deserialized data of an object without field errors: the keys that
\* were sent, plus estado's load_default when the load is not partial.
\* A load that applies load_default to a partial load too.
EstadoLoaded_AlwaysDefault(v, partial) == IF v = Absent THEN Activo ELSE v

EstadoLoaded(v, partial) == IF v = Absent /\ ~partial THEN Activo ELSE v

Loaded(d, partial) ==
    [nombre |-> d.nombre, email |-> d.email, telefono |-> d.telefono,
     estado |-> EstadoLoaded(d.estado, partial), otros |-> {}]

\* ------------------------------------------------------------------ store
Emails(store) == {store[i].email : i \in DOMAIN store}

FindByEmail(store, e) == {i \in DOMAIN store : store[i].email = e}

\* The schema context is never given the instance being updated, so the id
\* read from it is None whatever record the load is for.
ContextInstanceId(instanceId) == NoId


\* A validator without the email pre-check.
SchemaErrors_NoPrecheck(data, store, instanceId) ==
    {f \in {"nombre"} : Truthy(data.nombre) /\ Strip(data.nombre) = <<>>}

\* validates_schema: blank nombre, and an email some stored record holds
\* under an id other than the one read from the context.
SchemaErrors(data, store, instanceId) ==
    {f \in {"nombre"} : Truthy(data.nombre) /\ Strip(data.nombre) = <<>>}
    \cup
    {f \in {"email"} :
        /\ Truthy(data.email)
        /\ \E i \in FindByEmail(store, data.email) :
               i # ContextInstanceId(instanceId)}

\* Schema.load of something that is not an object: "Invalid input type."
InvalidInputType == {<<NoIdx, "_schema">>}

\* cliente_schema.load of one object: <<index, key>> pairs, NoIdx as index.
LoadErrors(d, partial, store, instanceId) ==
    LET fe == FieldErrors(d, partial)
    IN IF fe # {} THEN {<<NoIdx, f>> : f \in fe}
       ELSE {<<NoIdx, f>> : f \in SchemaErrors(Loaded(d, partial), store, instanceId)}

\* A list load that stops at the first item with a field error.
ManyFieldErrors_FirstOnly(items) ==
    LET bad == {i \in 1..Len(items) : FieldErrors(items[i], FALSE) # {}}
    IN IF bad = {} THEN {}
       ELSE LET i == CHOOSE x \in bad : \A y \in bad : x <= y
            IN {<<i - 1, f>> : f \in FieldErrors(items[i], FALSE)}

\* clientes_schema.load of a list: the schema validator is skipped for
\* the whole list as soon as any item has a field error.
ManyFieldErrors(items) ==
    UNION {{<<i - 1, f>> : f \in FieldErrors(items[i], FALSE)} : i \in 1..Len(items)}

ManySchemaErrors(items, store) ==
    UNION {{<<i - 1, f>> : f \in SchemaErrors(Loaded(items[i], FALSE), store, NoId)} :
              i \in 1..Len(items)}

LoadManyErrors(items, store) ==
    IF ManyFieldErrors(items) # {} THEN ManyFieldErrors(items)
    ELSE ManySchemaErrors(items, store)

\* A row whose two timestamp defaults are evaluated in the other order.
NewRow_StampsSwapped(data, fc, fa) ==
    [nombre |-> data.nombre,
     email |-> data.email,
     telefono |-> IF data.telefono = Absent THEN Null ELSE data.telefono,
     estado |-> IF data.estado = Absent THEN Activo ELSE data.estado,
     fecha_creacion |-> fa,
     fecha_actualizacion |-> fc]

\* Cliente(**data): a key that was not sent is left to the column default.
NewRow(data, fc, fa) ==
    [nombre |-> data.nombre,
     email |-> data.email,
     telefono |-> IF data.telefono = Absent THEN Null ELSE data.telefono,
     estado |-> IF data.estado = Absent THEN Activo ELSE data.estado,
     fecha_creacion |-> fc,
     fecha_actualizacion |-> fa]


\* ------------------------------------------------------------------ inputs
Clients == {"c1", "c2"}

Ids == 1..MaxId

NoBody == [kind |-> "none", items |-> <<>>]
ObjBody(d) == [kind |-> "obj", items |-> <<d>>]
ListBody(l) == [kind |-> "list", items |-> l]

\* A body that is neither null, an object nor a list: a JSON string or
\* number that Python takes for true.
ScalarBody == [kind |-> "scalar", items |-> <<>>]

ListsOf(items) == UNION {[1..n -> items] : n \in 0..MaxBatch}

\* Bodies for requests served one at a time: every way a body can fail.
CreateObjects ==
    {Dict(Ana, EmailA, Absent, Absent), Dict(Ana, EmailB, Tel1, Inactivo),
     Dict(Blank, EmailA, Absent, Absent), Dict(Ana, EmailBad, Absent, Otro),
     Dict(Absent, EmailBad, Absent, Absent), Dict(Absent, EmailB, Null, Absent),
     Dict(Absent, Absent, Absent, Absent)}

BatchItems ==
    {Dict(Ana, EmailA, Absent, Absent), Dict(Ana, EmailB, Tel1, Absent),
     Dict(Blank, EmailB, Absent, Absent), Dict(Ana, EmailBad, Absent, Absent)}

UpdateObjects ==
    {Dict(Absent, Absent, Absent, Inactivo), Dict(Absent, Absent, Null, Absent),
     Dict(Luz, Absent, Absent, Activo), Dict(Absent, EmailA, Absent, Absent),
     Dict(Absent, EmailB, Absent, Absent), Dict(Luz, EmailBad, Absent, Absent),
     Dict(Blank, EmailA, Absent, Absent), Dict(Absent, Absent, Absent, Otro),
     Dict(Null, Absent, Tel1, Absent), Dict(Absent, Absent, Absent, Absent)}

CreateBodies ==
    {NoBody} \cup {ObjBody(d) : d \in CreateObjects}
             \cup {ListBody(l) : l \in ListsOf(BatchItems)}

UpdateBodies == {NoBody} \cup {ObjBody(d) : d \in UpdateObjects}

\* Bodies for requests that overlap: the writes that can race on an email.
RaceItems == {Dict(Ana, EmailA, Absent, Absent), Dict(Ana, EmailB, Tel1, Absent)}

RaceCreateBodies ==
    {NoBody} \cup {ObjBody(d) : d \in RaceItems} \cup {ListBody(l) : l \in ListsOf(RaceItems)}

RaceUpdateBodies ==
    {NoBody} \cup
    {ObjBody(d) : d \in {Dict(Absent, EmailA, Absent, Absent),
                         Dict(Absent, EmailB, Absent, Absent),
                         Dict(Absent, Absent, Null, Inactivo)}}

\* A query-string argument: not given, a decimal integer, or other text.
NoArg == [kind |-> "absent", n |-> 0]
IntArg(n) == [kind |-> "int", n |-> n]
TextArg == [kind |-> "text", n |-> 0]

\* A lookup that takes a missing argument for 0.
ArgInt_NoDefault(raw, default) == raw.n

\* request.args.get(key, default, type=int): the default also stands in
\* for a value that int() refuses.
ArgInt(raw, default) == IF raw.kind = "int" THEN raw.n ELSE default

PageArgs == {NoArg, TextArg, IntArg(0), IntArg(1), IntArg(2), IntArg(999)}

PerPageArgs ==
    {NoArg, IntArg(0), IntArg(1), IntArg(2), IntArg(PerPageMax), IntArg(PerPageMax + 1)}

EstadoArgs == {Absent, <<>>, Activo, Inactivo, Otro}

Queries == [page : PageArgs, per_page : PerPageArgs, estado : EstadoArgs]

\* The list requests made between overlapping writes.
RaceQueries ==
    {[page |-> NoArg, per_page |-> NoArg, estado |-> Absent],
     [page |-> IntArg(0), per_page |-> NoArg, estado |-> Absent],
     [page |-> NoArg, per_page |-> IntArg(PerPageMax + 1), estado |-> Activo],
     [page |-> NoArg, per_page |-> NoArg, estado |-> Otro]}

\* A test that takes only a missing body for empty.
Falsy_NoneOnly(json) == json.kind = "none"

\* "if not json_data": no body, {} and [] are all falsy.
Falsy(json) ==
    \/ json.kind = "none"
    \/ json.kind = "list" /\ json.items = <<>>
    \/ json.kind = "obj" /\ IsEmptyDict(json.items[1])

\* ------------------------------------------------------------------- state
VARIABLES
    db,        \* the clientes table: id -> row
    seq,       \* the highest id handed out so far
    backend,   \* how the store picks a new id: "rowid" or "sequence"
    now,       \* the clock read by datetime.utcnow
    req,       \* per client, the request being handled
    resp,      \* the response being sent, with its request, if any
    prevCreated, \* the email created by the response sent last, when that was
               \* the 201 of a single create; Absent otherwise
    prevDeleted \* the id deleted by the response sent last, when that was the
               \* 200 of a delete; NoId otherwise

vars == <<db, seq, backend, now, req, resp, prevCreated, prevDeleted>>

Idle == [pc |-> "idle", op |-> "none", id |-> NoId, body |-> NoBody, dirty |-> {}]

\* The query string of a list request, and the pagination block and the
\* ids of the data array of its answer.
NoQuery == [page |-> NoArg, per_page |-> NoArg, estado |-> Absent]

NoPage == [page |-> 0, per_page |-> 0, total |-> 0, pages |-> 0, data |-> <<>>]

\* The texts of the error answers.
MsgNoData == "No se proporcionaron datos de entrada"
MsgValidation == "Error en la validacion de datos"
MsgConflict == "El email ya existe en el sistema"
MsgNotFound == "No se encontro cliente con ID"
MsgPage == "El numero de pagina debe ser mayor a 0"
MsgPerPage == "El numero de resultados debe estar entre 1 y 100"
MsgEstado == "El estado debe ser 'activo' o 'inactivo'"
MsgDelete == "Error al eliminar el cliente"
MsgGeneric == "Error inesperado en el servidor."

\* The message an APIError is raised with, by handler and status.
ApiMessage(op, status) ==
    IF status = 404 THEN MsgNotFound
    ELSE IF status = 422 THEN MsgValidation
    ELSE IF status = 409 THEN MsgConflict
    ELSE IF status = 500 THEN MsgDelete
    ELSE MsgNoData

\* An error body that always carries a details key.
ErrorKeys_AlwaysDetails(details) == {"type", "message", "details"}

\* _create_error_response: the keys of the error object; details is put in
\* only when it is truthy.
ErrorKeys(details) ==
    {"type", "message"} \cup (IF details # {} THEN {"details"} ELSE {})

NoResponse ==
    [op |-> "none", id |-> NoId, body |-> NoBody,
     status |-> 0, tipo |-> "none", details |-> {}, ids |-> {},
     query |-> NoQuery, pagination |-> NoPage,
     success |-> FALSE, errorKeys |-> {}, message |-> "", logged |-> "none",
     rollback |-> FALSE]

Init ==
    /\ db = <<>>
    /\ seq = 0
    /\ backend \in {"rowid", "sequence"}
    /\ now = 0
    /\ req = [c \in Clients |-> Idle]
    /\ resp = NoResponse
    /\ prevCreated = Absent
    /\ prevDeleted = NoId

\* jsonify(...), 2xx
Success(op, id, body, status, ids) ==
    [op |-> op, id |-> id, body |-> body,
     status |-> status, tipo |-> "none", details |-> {}, ids |-> ids,
     query |-> NoQuery, pagination |-> NoPage,
     success |-> TRUE, errorKeys |-> {}, message |-> "", logged |-> "none",
     rollback |-> FALSE]

\* An error handler that answers every APIError with 400.
ApiError_BadRequest(op, id, body, status, details) ==
    [op |-> op, id |-> id, body |-> body,
     status |-> 400, tipo |-> "API_ERROR", details |-> details, ids |-> {},
     query |-> NoQuery, pagination |-> NoPage,
     success |-> FALSE, errorKeys |-> ErrorKeys(details),
     message |-> ApiMessage(op, status), logged |-> "none", rollback |-> FALSE]

\* raise APIError(...) answered by handle_api_error
ApiError(op, id, body, status, details) ==
    [op |-> op, id |-> id, body |-> body,
     status |-> status, tipo |-> "API_ERROR", details |-> details, ids |-> {},
     query |-> NoQuery, pagination |-> NoPage,
     success |-> FALSE, errorKeys |-> ErrorKeys(details),
     message |-> ApiMessage(op, status), logged |-> "none", rollback |-> FALSE]

\* A fallback handler that puts the text of the exception in the answer.
Unhandled_Leaky(op, id, body, err) ==
    [op |-> op, id |-> id, body |-> body,
     status |-> 500, tipo |-> "INTERNAL_SERVER_ERROR", details |-> {}, ids |-> {},
     query |-> NoQuery, pagination |-> NoPage,
     success |-> FALSE, errorKeys |-> ErrorKeys({}),
     message |-> err, logged |-> err, rollback |-> FALSE]

\* any other exception, answered by handle_generic_error: the exception is
\* logged and the answer carries a fixed text; the session is not rolled
\* back by the handler.
Unhandled(op, id, body, err) ==
    [op |-> op, id |-> id, body |-> body,
     status |-> 500, tipo |-> "INTERNAL_SERVER_ERROR", details |-> {}, ids |-> {},
     query |-> NoQuery, pagination |-> NoPage,
     success |-> FALSE, errorKeys |-> ErrorKeys({}),
     message |-> MsgGeneric, logged |-> err, rollback |-> FALSE]

\* The objects a create has loaded, and the data an update has loaded.
Objs(json) == [i \in 1..Len(json.items) |-> Loaded(json.items[i], FALSE)]

Data(json) == Loaded(json.items[1], TRUE)

\* ---------------------------------------------------------------- create
\* create_cliente up to the end of schema.load: the body check and the
\* validation, which reads the table for the email pre-check.
CreateLoad(c, json) ==
    /\ req[c].pc = "idle"
    /\ resp = NoResponse
    /\ UNCHANGED <<prevCreated, prevDeleted>>
    /\ UNCHANGED <<db, seq, backend, now>>
    /\ LET op == IF json.kind = "list" THEN "create_batch" ELSE "create"
           errs == IF json.kind = "list" THEN LoadManyErrors(json.items, db)
                   ELSE IF json.kind = "scalar" THEN InvalidInputType
                   ELSE LoadErrors(json.items[1], FALSE, db, NoId)
       IN IF Falsy(json)
          THEN /\ resp' = ApiError(op, NoId, json, 400, {})
               /\ UNCHANGED req
          ELSE IF errs # {}
          THEN /\ resp' = ApiError(op, NoId, json, 422, errs)
               /\ UNCHANGED req
          ELSE /\ req' = [req EXCEPT ![c] =
                            [Idle EXCEPT !.pc = "ready", !.op = op, !.body = json]]
               /\ UNCHANGED resp

\* A table whose email column lost unique=True.
InsertConflict_NoUnique(store, objs) == FALSE

\* A constraint that only looks at the rows already stored.
InsertConflict_StoredOnly(store, objs) ==
    \E i \in 1..Len(objs) : objs[i].email \in Emails(store)

\* The store's UNIQUE(email): the rows to insert clash with a stored row or
\* with one another.
InsertConflict(store, objs) ==
    \/ \E i \in 1..Len(objs) : objs[i].email \in Emails(store)
    \/ \E i, j \in 1..Len(objs) : i < j /\ objs[i].email = objs[j].email

\* The id before the first new one: the largest stored rowid, or the
\* sequence's last value.
BaseId(store) == IF backend = "rowid" THEN MaxOf(DOMAIN store) ELSE seq

\* The 2n calls of datetime.utcnow made for n new rows, in order; the clock
\* moves on after the first k of them (after none of them when it stands
\* still for the length of the run).
Stamp(j, k) == IF j <= k THEN now ELSE now + 1

Inserted(store, objs, k) ==
    LET base == BaseId(store)
        n == Len(objs)
    IN [i \in DOMAIN store \cup (base + 1)..(base + n) |->
          IF i \in (base + 1)..(base + n)
          THEN NewRow(objs[i - base], Stamp(2 * (i - base) - 1, k), Stamp(2 * (i - base), k))
          ELSE store[i]]

\* A handler that commits what was flushed before the IntegrityError: the
\* first row stays when its email was free.
RolledBack_Partial(before, objs) ==
    IF objs[1].email \in Emails(before) THEN before
    ELSE [i \in DOMAIN before \cup {MaxOf(DOMAIN before) + 1} |->
            IF i \in DOMAIN before THEN before[i] ELSE NewRow(objs[1], now, now)]

\* db.session.rollback() after the IntegrityError: nothing the transaction
\* inserted stays.
RolledBack(before, objs) == before

\* db.session.add/add_all and commit: one transaction.
CreateCommit(c, drift) ==
    /\ req[c].pc = "ready"
    /\ req[c].op \in {"create", "create_batch"}
    /\ resp = NoResponse
    /\ UNCHANGED <<prevCreated, prevDeleted>>
    /\ req' = [req EXCEPT ![c] = Idle]
    /\ UNCHANGED backend
    /\ LET objs == Objs(req[c].body)
           n == Len(objs)
           base == BaseId(db)
       IN IF InsertConflict(db, objs)
          THEN /\ resp' = [ApiError(req[c].op, NoId, req[c].body, 409, {})
                              EXCEPT !.rollback = TRUE]
               /\ db' = RolledBack(db, objs)
               /\ UNCHANGED <<seq, now>>
          ELSE \E k \in (IF drift THEN 0 ELSE 2 * n)..(2 * n) :
                  /\ base + n <= MaxId
                  /\ k < 2 * n => now < MaxTime
                  /\ db' = Inserted(db, objs, k)
                  /\ now' = Stamp(2 * n, k)
                  /\ seq' = IF base + n > seq THEN base + n ELSE seq
                  /\ resp' = Success(req[c].op, NoId, req[c].body, 201,
                                     (base + 1)..(base + n))

\* ---------------------------------------------------------------- update
\* A unit of work that writes every loaded key, changed or not.
Dirty_AllKeys(row, data) == Keys(data)

\* The columns SQLAlchemy will write: the loaded keys whose value differs
\* from the one the instance was read with.
Dirty(row, data) == {f \in Keys(data) : data[f] # row[f]}

\* A handler that looks at the body before it looks the record up.
UpdateLoad_BodyFirst(c, id, json) ==
    /\ req[c].pc = "idle"
    /\ resp = NoResponse
    /\ UNCHANGED <<prevCreated, prevDeleted>>
    /\ UNCHANGED <<db, seq, backend, now>>
    /\ IF Falsy(json)
       THEN /\ resp' = ApiError("update", id, json, 400, {})
            /\ UNCHANGED req
       ELSE IF id \notin DOMAIN db
       THEN /\ resp' = ApiError("update", id, json, 404, {})
            /\ UNCHANGED req
       ELSE LET errs == IF json.kind # "obj" THEN InvalidInputType
                        ELSE LoadErrors(json.items[1], TRUE, db, id)
            IN IF errs # {}
               THEN /\ resp' = ApiError("update", id, json, 422, errs)
                    /\ UNCHANGED req
               ELSE /\ req' = [req EXCEPT ![c] =
                                 [Idle EXCEPT !.pc = "ready", !.op = "update", !.id = id,
                                    !.body = json, !.dirty = Dirty(db[id], Data(json))]]
                    /\ UNCHANGED resp

\* update_cliente up to the end of schema.load(instance=, partial=True).
UpdateLoad(c, id, json) ==
    /\ req[c].pc = "idle"
    /\ resp = NoResponse
    /\ UNCHANGED <<prevCreated, prevDeleted>>
    /\ UNCHANGED <<db, seq, backend, now>>
    /\ IF id \notin DOMAIN db
       THEN /\ resp' = ApiError("update", id, json, 404, {})
            /\ UNCHANGED req
       ELSE IF Falsy(json)
       THEN /\ resp' = ApiError("update", id, json, 400, {})
            /\ UNCHANGED req
       ELSE LET errs == IF json.kind # "obj" THEN InvalidInputType
                        ELSE LoadErrors(json.items[1], TRUE, db, id)
            IN IF errs # {}
               THEN /\ resp' = ApiError("update", id, json, 422, errs)
                    /\ UNCHANGED req
               ELSE /\ req' = [req EXCEPT ![c] =
                                 [Idle EXCEPT !.pc = "ready", !.op = "update", !.id = id,
                                    !.body = json, !.dirty = Dirty(db[id], Data(json))]]
                    /\ UNCHANGED resp

\* A merge that, like Cliente.update, leaves out the keys sent as null.
Merged_SkipNull(row, data, dirty, t) ==
    [f \in DOMAIN row |->
        IF f \in dirty /\ data[f] # Null THEN data[f]
        ELSE IF f = "fecha_actualizacion" THEN t
        ELSE row[f]]

\* Cliente.update(**kwargs): the permitted keys whose value is not None.
ClienteUpdate(row, kwargs) ==
    [f \in DOMAIN row |->
        IF f \in Fields /\ kwargs[f] # Absent /\ kwargs[f] # Null THEN kwargs[f]
        ELSE row[f]]

\* A merge whose UPDATE also stamps fecha_creacion.
Merged_TouchCreated(row, data, dirty, t) ==
    [f \in DOMAIN row |->
        IF f \in dirty THEN data[f]
        ELSE IF f \in {"fecha_actualizacion", "fecha_creacion"} THEN t
        ELSE row[f]]

\* setattr(instance, key, value) for every loaded key, as the UPDATE writes
\* it: the changed columns and the onupdate timestamp.
Merged(row, data, dirty, t) ==
    [f \in DOMAIN row |->
        IF f \in dirty THEN data[f]
        ELSE IF f = "fecha_actualizacion" THEN t
        ELSE row[f]]

UpdateConflict_NoUnique(store, id, data, dirty) == FALSE

UpdateConflict(store, id, data, dirty) ==
    "email" \in dirty /\ \E j \in DOMAIN store : j # id /\ store[j].email = data.email

\* A handler that answers 409 but leaves the refused UPDATE in place.
UpdateRolledBack_Kept(store, id, data, dirty) ==
    [store EXCEPT ![id] = [f \in DOMAIN store[id] |->
                             IF f \in dirty THEN data[f] ELSE store[id][f]]]

\* db.session.rollback() after the IntegrityError of an update: no column
\* of any row is written.
UpdateRolledBack(store, id, data, dirty) == store

\* db.session.commit() and the dump of the refreshed instance.
UpdateCommit(c) ==
    /\ req[c].pc = "ready"
    /\ req[c].op = "update"
    /\ resp = NoResponse
    /\ UNCHANGED <<prevCreated, prevDeleted>>
    /\ req' = [req EXCEPT ![c] = Idle]
    /\ UNCHANGED <<seq, backend, now>>
    /\ LET id == req[c].id
           data == Data(req[c].body)
           dirty == req[c].dirty
       IN IF id \notin DOMAIN db
          THEN \* the row is gone: StaleDataError or ObjectDeletedError
               /\ resp' = Unhandled("update", id, req[c].body, "StaleDataError")
               /\ UNCHANGED db
          ELSE IF dirty = {}
          THEN /\ resp' = Success("update", id, req[c].body, 200, {id})
               /\ UNCHANGED db
          ELSE IF UpdateConflict(db, id, data, dirty)
          THEN /\ resp' = [ApiError("update", id, req[c].body, 409, {})
                              EXCEPT !.rollback = TRUE]
               /\ db' = UpdateRolledBack(db, id, data, dirty)
          ELSE /\ db' = [db EXCEPT ![id] = Merged(db[id], data, dirty, now)]
               /\ resp' = Success("update", id, req[c].body, 200, {id})

\* ---------------------------------------------------------------- delete
DeleteLoad(c, id) ==
    /\ req[c].pc = "idle"
    /\ resp = NoResponse
    /\ UNCHANGED <<prevCreated, prevDeleted>>
    /\ UNCHANGED <<db, seq, backend, now>>
    /\ IF id \notin DOMAIN db
       THEN /\ resp' = ApiError("delete", id, NoBody, 404, {})
            /\ UNCHANGED req
       ELSE /\ req' = [req EXCEPT ![c] =
                         [Idle EXCEPT !.pc = "ready", !.op = "delete", !.id = id]]
            /\ UNCHANGED resp

\* A delete that leaves the row in the table.
Without_Kept(store, id) == store

Without(store, id) == [i \in DOMAIN store \ {id} |-> store[i]]

\* db.session.delete and commit; a row already gone only draws a warning.
DeleteCommit(c) ==
    /\ req[c].pc = "ready"
    /\ req[c].op = "delete"
    /\ resp = NoResponse
    /\ UNCHANGED <<prevCreated, prevDeleted>>
    /\ req' = [req EXCEPT ![c] = Idle]
    /\ db' = Without(db, req[c].id)
    /\ resp' = Success("delete", req[c].id, NoBody, 200, {})
    /\ UNCHANGED <<seq, backend, now>>

\* ------------------------------------------------------------------- get
\* get_cliente: one read of the table.
Get(id) ==
    /\ resp = NoResponse
    /\ resp' = IF id \in DOMAIN db THEN Success("get", id, NoBody, 200, {id})
               ELSE ApiError("get", id, NoBody, 404, {})
    /\ UNCHANGED <<db, seq, backend, now, req, prevCreated, prevDeleted>>

\* ------------------------------------------------------------------ list
\* query.filter_by(estado=estado), applied only for a truthy estado.
Matching(store, estado) ==
    {i \in DOMAIN store : Truthy(estado) => store[i].estado = estado}

\* order_by(Cliente.id)
RECURSIVE OrderById(_)
OrderById(S) ==
    IF S = {} THEN <<>>
    ELSE LET m == CHOOSE x \in S : \A y \in S : x <= y
         IN <<m>> \o OrderById(S \ {m})

\* OFFSET (page - 1) * per_page, LIMIT per_page
RECURSIVE Drop(_, _)
Drop(s, n) == IF n = 0 \/ s = <<>> THEN s ELSE Drop(Tail(s), n - 1)

RECURSIVE Take(_, _)
Take(s, n) == IF n = 0 \/ s = <<>> THEN <<>> ELSE <<Head(s)>> \o Take(Tail(s), n - 1)

\* Pagination.pages: ceil(total / per_page), 0 for an empty result.
Pages(total, per_page) ==
    IF total = 0 THEN 0
    ELSE (total \div per_page) + (IF total % per_page = 0 THEN 0 ELSE 1)

\* A pagination that counts pages from 0.
Paginate_FromZero(ids, page, per_page) ==
    [page |-> page, per_page |-> per_page, total |-> Len(ids),
     pages |-> Pages(Len(ids), per_page),
     data |-> Take(Drop(ids, page * per_page), per_page)]

\* paginate(page, per_page, error_out=False) and the pagination block.
Paginate(ids, page, per_page) ==
    [page |-> page, per_page |-> per_page, total |-> Len(ids),
     pages |-> Pages(Len(ids), per_page),
     data |-> Take(Drop(ids, (page - 1) * per_page), per_page)]

\* list_clientes; the queries of paginate read one state of the table.
List(q) ==
    /\ resp = NoResponse
    /\ UNCHANGED <<db, seq, backend, now, req, prevCreated, prevDeleted>>
    /\ LET page == ArgInt(q.page, DefaultPage)
           per_page == ArgInt(q.per_page, DefaultPerPage)
           refused == [ApiError("list", NoId, NoBody, 400, {}) EXCEPT !.query = q]
       IN IF page < 1 THEN resp' = [refused EXCEPT !.message = MsgPage]
          ELSE IF per_page < 1 \/ per_page > PerPageMax
          THEN resp' = [refused EXCEPT !.message = MsgPerPage]
          ELSE IF Truthy(q.estado) /\ q.estado \notin {Activo, Inactivo}
          THEN resp' = [refused EXCEPT !.message = MsgEstado]
          ELSE resp' = [Success("list", NoId, NoBody, 200, {}) EXCEPT
                          !.query = q,
                          !.pagination =
                              Paginate(OrderById(Matching(db, q.estado)), page, per_page)]

\* ---------------------------------------------------------- store faults
\* The exceptions, other than IntegrityError, a failing store raises.
StoreErrors == {"OperationalError", "TimeoutError"}

\* create_cliente when commit raises one of them: neither except clause
\* applies, nothing is committed, and the fallback handler answers.
CreateFail(c, err) ==
    /\ req[c].pc = "ready"
    /\ req[c].op \in {"create", "create_batch"}
    /\ resp = NoResponse
    /\ req' = [req EXCEPT ![c] = Idle]
    /\ resp' = Unhandled(req[c].op, NoId, req[c].body, err)
    /\ UNCHANGED <<db, seq, backend, now, prevCreated, prevDeleted>>

\* update_cliente when commit raises one of them.
UpdateFail(c, err) ==
    /\ req[c].pc = "ready"
    /\ req[c].op = "update"
    /\ resp = NoResponse
    /\ req' = [req EXCEPT ![c] = Idle]
    /\ resp' = Unhandled("update", req[c].id, req[c].body, err)
    /\ UNCHANGED <<db, seq, backend, now, prevCreated, prevDeleted>>

\* delete_cliente when delete or commit raises: "except Exception" rolls
\* back, logs the exception and raises APIError 500.
DeleteFail(c, err) ==
    /\ req[c].pc = "ready"
    /\ req[c].op = "delete"
    /\ resp = NoResponse
    /\ req' = [req EXCEPT ![c] = Idle]
    /\ resp' = [ApiError("delete", req[c].id, NoBody, 500, {})
                  EXCEPT !.logged = err, !.rollback = TRUE]
    /\ UNCHANGED <<db, seq, backend, now, prevCreated, prevDeleted>>

\* get, update or delete when the query that looks the record up
\* raises: the query is outside any try block.
QueryFail(op, id, err) ==
    /\ resp = NoResponse
    /\ resp' = Unhandled(op, id, NoBody, err)
    /\ UNCHANGED <<db, seq, backend, now, req, prevCreated, prevDeleted>>

\* ------------------------------------------------------- clock, transport
Tick ==
    /\ now < MaxTime
    /\ resp = NoResponse
    /\ UNCHANGED <<prevCreated, prevDeleted>>
    /\ now' = now + 1
    /\ UNCHANGED <<db, seq, backend, req, resp>>

\* The response leaves the server.
Send ==
    /\ resp # NoResponse
    /\ resp' = NoResponse
    /\ prevCreated' = IF resp.op = "create" /\ resp.status = 201
                      THEN resp.body.items[1].email ELSE Absent
    /\ prevDeleted' = IF resp.op = "delete" /\ resp.status = 200 THEN resp.id ELSE NoId
    /\ UNCHANGED <<db, seq, backend, now, req>>

\* ------------------------------------------------------------ composition
DoCreateLoad(cs, bodies) == \E c \in cs, json \in bodies : CreateLoad(c, json)
DoCreateCommit(drift) == \E c \in Clients : CreateCommit(c, drift)
DoUpdateLoad(cs, bodies) == \E c \in cs, id \in Ids, json \in bodies : UpdateLoad(c, id, json)
DoUpdateCommit == \E c \in Clients : UpdateCommit(c)
DoDeleteLoad(cs) == \E c \in cs, id \in Ids : DeleteLoad(c, id)
DoDeleteCommit == \E c \in Clients : DeleteCommit(c)
DoGet == \E id \in Ids : Get(id)
DoList(queries) == \E q \in queries : List(q)

AllIdle == \A c \in Clients : req[c].pc = "idle"

\* Overlapping requests of two clients, within one reading of the clock;
\* a list is served while no write is being handled.
Next ==
    \/ DoCreateLoad(Clients, RaceCreateBodies)
    \/ DoCreateCommit(FALSE)
    \/ DoUpdateLoad(Clients, RaceUpdateBodies)
    \/ DoUpdateCommit
    \/ DoDeleteLoad(Clients)
    \/ DoDeleteCommit
    \/ DoGet
    \/ AllIdle /\ DoList(RaceQueries)
    \/ Send

Spec == Init /\ [][Next]_vars

\* Requests served strictly one after the other, within one reading of the
\* clock: a request is taken up only when no other is being handled.
NextSeq ==
    \/ AllIdle /\ DoCreateLoad({"c1"}, CreateBodies)
    \/ DoCreateCommit(FALSE)
    \/ AllIdle /\ DoUpdateLoad({"c1"}, UpdateBodies)
    \/ DoUpdateCommit
    \/ AllIdle /\ DoDeleteLoad({"c1"})
    \/ DoDeleteCommit
    \/ AllIdle /\ DoGet
    \/ AllIdle /\ DoList(Queries)
    \/ Send

SeqSpec == Init /\ [][NextSeq]_vars

\* Requests served one after the other while the clock runs.
TimedCreateBodies ==
    {ObjBody(Dict(Ana, EmailA, Absent, Absent)),
     ListBody(<<Dict(Ana, EmailA, Absent, Absent), Dict(Ana, EmailB, Tel1, Absent)>>),
     ObjBody([Dict(Ana, EmailB, Absent, Absent) EXCEPT !.otros = {"id", "fecha_creacion"}])}

TimedUpdateBodies ==
    {ObjBody(Dict(Absent, Absent, Absent, Inactivo)), ObjBody(Dict(Absent, Absent, Absent, Activo)),
     ObjBody(Dict(Luz, Absent, Null, Absent)),
     ObjBody([Dict(Luz, Absent, Absent, Absent) EXCEPT !.otros = {"id"}]),
     ObjBody([Dict(Luz, Absent, Absent, Absent) EXCEPT !.otros = {"fecha_creacion"}])}

NextTimed ==
    \/ AllIdle /\ DoCreateLoad({"c1"}, TimedCreateBodies)
    \/ DoCreateCommit(TRUE)
    \/ AllIdle /\ DoUpdateLoad({"c1"}, TimedUpdateBodies)
    \/ DoUpdateCommit
    \/ AllIdle /\ DoDeleteLoad({"c1"})
    \/ DoDeleteCommit
    \/ Tick
    \/ Send

TimedSpec == Init /\ [][NextTimed]_vars

\* Requests served one after the other by a store that may fail, with
\* bodies of every JSON kind.
FaultCreateBodies ==
    {NoBody, ScalarBody, ListBody(<<>>),
     ObjBody(Dict(Absent, Absent, Absent, Absent)),
     ObjBody(Dict(Ana, EmailA, Absent, Absent)),
     ObjBody(Dict(Absent, EmailBad, Absent, Absent)),
     ListBody(<<Dict(Ana, EmailA, Absent, Absent), Dict(Ana, EmailA, Absent, Absent)>>),
     ListBody(<<Dict(Ana, EmailA, Absent, Absent), Dict(Ana, EmailB, Tel1, Absent)>>)}

FaultUpdateBodies ==
    {NoBody, ScalarBody, ListBody(<<>>),
     ObjBody(Dict(Absent, Absent, Absent, Absent)),
     ListBody(<<Dict(Ana, EmailA, Absent, Absent)>>),
     ObjBody(Dict(Absent, Absent, Absent, Inactivo)),
     ObjBody(Dict(Absent, EmailB, Absent, Absent)),
     ObjBody(Dict(Absent, EmailBad, Absent, Absent))}

\* Requests served one after the other with values at the edge of every
\* field rule, and bodies that name the read-only keys.
FieldCreateBodies ==
    {ObjBody(Dict(n, EmailA, Absent, Absent)) :
        n \in {Ana, Empty, Blank, NombreFull, NombreOver, NombrePaddedFull,
               NombrePaddedOver, Null}}
    \cup {ObjBody(Dict(Ana, e, Absent, Absent)) : e \in {EmailFull, EmailOver, Null}}
    \cup {ObjBody(Dict(Ana, EmailA, t, Absent)) : t \in {TelFull, TelOver}}
    \cup {ObjBody(Dict(Ana, EmailA, Null, s)) : s \in {Inactivo, Otro, Null}}
    \cup {ObjBody([Dict(Ana, EmailA, Absent, Absent) EXCEPT !.otros = {k}]) :
            k \in {"id", "fecha_creacion"}}
    \cup {ListBody(<<Dict(NombreFull, EmailA, TelFull, Absent),
                      Dict(n, EmailFull, Null, Inactivo)>>) : n \in {Ana, Blank}}

FieldUpdateBodies ==
    {ObjBody(Dict(n, Absent, Absent, Absent)) :
        n \in {Empty, Blank, NombreFull, NombreOver, NombrePaddedFull,
               NombrePaddedOver, Null}}
    \cup {ObjBody(Dict(Absent, e, Absent, Absent)) : e \in {EmailFull, EmailOver, Null}}
    \cup {ObjBody(Dict(Absent, Absent, t, Absent)) : t \in {TelFull, TelOver, Null}}
    \cup {ObjBody(Dict(Absent, Absent, Absent, s)) : s \in {Inactivo, Otro, Null}}
    \cup {ObjBody([Dict(Luz, Absent, Absent, Absent) EXCEPT !.otros = {k}]) :
            k \in {"id", "fecha_creacion"}}

NextField ==
    \/ AllIdle /\ DoCreateLoad({"c1"}, FieldCreateBodies)
    \/ DoCreateCommit(FALSE)
    \/ AllIdle /\ DoUpdateLoad({"c1"}, FieldUpdateBodies)
    \/ DoUpdateCommit
    \/ AllIdle /\ DoDeleteLoad({"c1"})
    \/ DoDeleteCommit
    \/ AllIdle /\ DoGet
    \/ Send

FieldSpec == Init /\ [][NextField]_vars

DoCreateFail == \E c \in Clients, err \in StoreErrors : CreateFail(c, err)
DoUpdateFail == \E c \in Clients, err \in StoreErrors : UpdateFail(c, err)
DoDeleteFail == \E c \in Clients, err \in StoreErrors : DeleteFail(c, err)
DoQueryFail ==
    \E op \in {"get", "update", "delete"}, id \in Ids, err \in StoreErrors :
        QueryFail(op, id, err)

NextFault ==
    \/ AllIdle /\ DoCreateLoad({"c1"}, FaultCreateBodies)
    \/ DoCreateCommit(FALSE)
    \/ DoCreateFail
    \/ AllIdle /\ DoUpdateLoad({"c1"}, FaultUpdateBodies)
    \/ DoUpdateCommit
    \/ DoUpdateFail
    \/ AllIdle /\ DoDeleteLoad({"c1"})
    \/ DoDeleteCommit
    \/ DoDeleteFail
    \/ AllIdle /\ DoGet
    \/ AllIdle /\ DoList(RaceQueries)
    \/ AllIdle /\ DoQueryFail
    \/ Send

FaultSpec == Init /\ [][NextFault]_vars

TypeOK ==
    /\ seq \in 0..MaxId
    /\ now \in 0..MaxTime
    /\ DOMAIN db \subseteq Ids


\* ================================================================= claims
\* A step that produces a response, and the client whose request commits.
Responds == resp = NoResponse /\ resp' # NoResponse

Commits(c) == req[c].pc = "ready" /\ req'[c].pc = "idle"

Item(r) == r.body.items[1]

\* The emails a request past validation is about to write.
WrittenEmails(r) ==
    IF r.op \in {"create", "create_batch"}
    THEN {Objs(r.body)[i].email : i \in 1..Len(r.body.items)}
    ELSE IF r.op = "update" /\ "email" \in r.dirty THEN {Data(r.body).email}
    ELSE {}

\* One of them is held by a stored row other than the request's own.
Collides(r) ==
    \E e \in WrittenEmails(r) : \E j \in FindByEmail(db, e) : r.op = "update" => j # r.id

\* ---- C1 ----------------------------------------------------------------
\* C1: in every reachable state, whatever the interleaving of single
\* creates, batch creates and updates of two clients, no two stored records
\* have the same email.
C1_UniqueEmails ==
    \A i, j \in DOMAIN db : i # j => db[i].email # db[j].email

\* Two records are stored and the store has just refused a writer that had
\* passed the pre-check, while another request is still being handled.
C1_Witness ==
    /\ Cardinality(DOMAIN db) = 2
    /\ resp.status = 409
    /\ \E c \in Clients : req[c].pc = "ready"

\* ---- C2 ----------------------------------------------------------------
\* C2: of two writes for the same email that both passed the pre-check, the
\* one that commits first succeeds and stores the email once; the one that
\* commits when another row already holds the email changes nothing in the
\* table and is answered 409.
C2_RaceResolved ==
    [][\A c \in Clients :
          (Commits(c) /\ req[c].op \in {"create", "create_batch", "update"}
             /\ (req[c].op = "update" => req[c].id \in DOMAIN db)) =>
              /\ Collides(req[c]) => (db' = db /\ resp'.status = 409)
              /\ (~Collides(req[c]) /\ req[c].op = "create") =>
                    /\ resp'.status = 201
                    /\ Cardinality(FindByEmail(db', Item(req[c]).email)) = 1
              /\ (~Collides(req[c]) /\ req[c].op = "update" /\ "email" \in req[c].dirty) =>
                    /\ resp'.status = 200
                    /\ FindByEmail(db', Item(req[c]).email) = {req[c].id}]_vars

\* A single create or an update lost the race: it is answered 409 and the
\* email it asked for is stored exactly once, by the winner.
C2_Witness ==
    /\ resp.status = 409
    /\ resp.op \in {"create", "update"}
    /\ Cardinality(FindByEmail(db, Item(resp).email)) = 1

\* ---- C3 ----------------------------------------------------------------
\* C3: when a single create of an email is answered 201 and the very next
\* request is a single create of the same email, the second is refused by
\* the validator (422, naming email unless a field rule already failed) and
\* stores nothing, so exactly one record with that email is stored
\* afterwards.
C3_SecondCreateRefused ==
    [][(Responds /\ resp'.op = "create" /\ resp'.body.kind = "obj"
          /\ prevCreated # Absent /\ Item(resp').email = prevCreated) =>
              /\ resp'.status = 422
              /\ FieldErrors(Item(resp'), FALSE) = {} => <<NoIdx, "email">> \in resp'.details
              /\ db' = db
              /\ Cardinality(FindByEmail(db', prevCreated)) = 1]_vars

C3_Witness ==
    /\ resp.op = "create"
    /\ resp.status = 422
    /\ resp.body.kind = "obj"
    /\ prevCreated # Absent
    /\ Item(resp).email = prevCreated
    /\ Cardinality(FindByEmail(db, prevCreated)) = 1


\* ---- C4 ----------------------------------------------------------------
\* Two items of the list carry the same email e.
TwoItemsWith(items, e) ==
    \E i, j \in 1..Len(items) : i < j /\ items[i].email = e /\ items[j].email = e

BatchEmails(items) == {items[i].email : i \in 1..Len(items)} \ {Absent, Null}

\* C4 as claimed: a batch that is acceptable but for two items with the
\* same, not yet stored email stores that email exactly once (one item
\* succeeds, the other is refused).
C4_OneOfTwoStored ==
    [][(Responds /\ resp'.op = "create_batch") =>
          \A e \in BatchEmails(resp'.body.items) :
              (TwoItemsWith(resp'.body.items, e) /\ e \notin Emails(db)
                 /\ LoadManyErrors(resp'.body.items, db) = {}) =>
                  Cardinality(FindByEmail(db', e)) = 1]_vars

\* C4 as amended: such a batch never has a success; it is refused as a
\* whole and stores nothing, with 409 from the commit when every item
\* passes validation (422 when one does not).
C4_BatchRefused ==
    [][(Responds /\ resp'.op = "create_batch") =>
          \A e \in BatchEmails(resp'.body.items) :
              (TwoItemsWith(resp'.body.items, e) /\ e \notin Emails(db)) =>
                  /\ db' = db
                  /\ resp'.status \in {409, 422}
                  /\ LoadManyErrors(resp'.body.items, db) = {} => resp'.status = 409]_vars

C4_Witness ==
    /\ resp.op = "create_batch"
    /\ resp.status = 409
    /\ \E e \in BatchEmails(resp.body.items) :
          TwoItemsWith(resp.body.items, e) /\ e \notin Emails(db)

\* ---- C5 ----------------------------------------------------------------
\* C5: an update whose body is valid and whose email is the target record's
\* own current email is answered 200, never refused as a duplicate.
C5_OwnEmailAccepted ==
    (/\ resp.op = "update"
     /\ resp.body.kind = "obj"
     /\ resp.id \in DOMAIN db
     /\ Item(resp).email = db[resp.id].email
     /\ FieldErrors(Item(resp), TRUE) = {}
     /\ ~(Truthy(Item(resp).nombre) /\ Strip(Item(resp).nombre) = <<>>))
        => resp.status = 200

\* ---- C6 ----------------------------------------------------------------
ItemAt(r, idx) == r.body.items[IF idx = NoIdx THEN 1 ELSE idx + 1]

\* The response refuses a well-formed email because it is already taken.
RefusesTakenEmail(r) ==
    \/ r.status = 409
    \/ \E d \in r.details :
          d[2] = "email" /\ ~EmailFieldFails(ItemAt(r, d[1]).email, r.op = "update")

\* C6: every refusal for a taken email, by the validator's pre-check as
\* well as by the store at commit, carries status 409.
C6_TakenEmailIs409 ==
    RefusesTakenEmail(resp) => resp.status = 409

\* ---- C7 ----------------------------------------------------------------
FieldFailing(items) == {i \in 1..Len(items) : FieldErrors(items[i], FALSE) # {}}

CrossFailing(items, store) ==
    {i \in 1..Len(items) :
        /\ FieldErrors(items[i], FALSE) = {}
        /\ SchemaErrors(Loaded(items[i], FALSE), store, NoId) # {}}

\* The positions (from 1) of the items the details name.
NamedItems(r) == {d[1] + 1 : d \in r.details}

\* C7 as claimed: a batch with an item that fails a field or a cross-field
\* rule stores nothing, is answered 422, and the details name every
\* failing item by its position.
C7_EveryFailingItemNamed ==
    [][(Responds /\ resp'.op = "create_batch"
          /\ FieldFailing(resp'.body.items) \cup CrossFailing(resp'.body.items, db) # {}) =>
              /\ db' = db
              /\ resp'.status = 422
              /\ FieldFailing(resp'.body.items) \cup CrossFailing(resp'.body.items, db)
                    \subseteq NamedItems(resp')]_vars

\* C7 as amended: such a batch stores nothing and is answered 422; the
\* details name exactly the items that fail a field rule, and the items that
\* fail a cross-field rule only when no item fails a field rule.
C7_FailingItemsNamed ==
    [][(Responds /\ resp'.op = "create_batch"
          /\ FieldFailing(resp'.body.items) \cup CrossFailing(resp'.body.items, db) # {}) =>
              /\ db' = db
              /\ resp'.status = 422
              /\ NamedItems(resp') =
                    IF FieldFailing(resp'.body.items) # {}
                    THEN FieldFailing(resp'.body.items)
                    ELSE CrossFailing(resp'.body.items, db)]_vars

\* Item 2 of a batch fails a field rule, item 1 does not, and the 422 names
\* item 2 alone.
C7_Witness ==
    /\ resp.op = "create_batch"
    /\ resp.status = 422
    /\ FieldFailing(resp.body.items) = {2}
    /\ NamedItems(resp) = {2}


\* ---- C8 ----------------------------------------------------------------
NewIds == DOMAIN db' \ DOMAIN db

\* C8: the commit of a validated batch either adds one record per item and
\* is answered 201, or, refused by the store, leaves the table as it was
\* and is answered 409; no step stores part of a batch.
C8_BatchAtomic ==
    [][\A c \in Clients :
          (Commits(c) /\ req[c].op = "create_batch") =>
              LET objs == Objs(req[c].body)
              IN \/ /\ resp'.status = 201
                    /\ \A j \in DOMAIN db : j \in DOMAIN db' /\ db'[j] = db[j]
                    /\ Cardinality(NewIds) = Len(objs)
                    /\ \A i \in 1..Len(objs) : \E j \in NewIds : db'[j].email = objs[i].email
                 \/ /\ resp'.status = 409
                    /\ db' = db]_vars

\* A batch answered 409 of which one item's email is stored (by the writer
\* that won) and another item's email is not stored at all.
C8_Witness ==
    /\ resp.op = "create_batch"
    /\ resp.status = 409
    /\ \E i, j \in 1..Len(resp.body.items) :
          /\ resp.body.items[i].email \in Emails(db)
          /\ resp.body.items[j].email \notin Emails(db)

\* ---- C9 ----------------------------------------------------------------
\* C9: an update answered 200 leaves every field of the record that the
\* body does not name as it was stored (estado included: it is not reset to
\* 'activo'), and leaves the other records and the set of ids unchanged.
C9_UnnamedFieldsKept ==
    [][(Responds /\ resp'.op = "update" /\ resp'.status = 200) =>
          /\ DOMAIN db' = DOMAIN db
          /\ resp'.id \in DOMAIN db
          /\ \A j \in DOMAIN db : j # resp'.id => db'[j] = db[j]
          /\ \A f \in Fields \ Keys(Item(resp')) : db'[resp'.id][f] = db[resp'.id][f]]_vars

\* The record created 'inactivo' with a telefono by the previous request
\* has had its email alone changed, and still has both.
C9_Witness ==
    /\ prevCreated = EmailB
    /\ resp.op = "update"
    /\ resp.status = 200
    /\ Keys(Item(resp)) = {"email"}
    /\ db[resp.id].email = EmailA
    /\ db[resp.id].estado = Inactivo
    /\ db[resp.id].telefono = Tel1

\* ---- C10 ---------------------------------------------------------------
\* C10 as claimed: the record after an update answered 200 is the record
\* before it with Cliente.update applied to the loaded body, so that a key
\* sent as null leaves the stored value.
C10_EqualsClienteUpdate ==
    [][(Responds /\ resp'.op = "update" /\ resp'.status = 200) =>
          \A f \in Fields \cup {"fecha_creacion"} :
              db'[resp'.id][f] = ClienteUpdate(db[resp'.id], Data(resp'.body))[f]]_vars

\* C10 as amended: an update answered 200, served with no other write in
\* between, stores the loaded value of every key the body names, null
\* included (telefono: null clears the stored telefono); the keys it does
\* not name, the id and fecha_creacion are not touched, and for a body
\* without null this is what Cliente.update would do.
C10_NamedFieldsWritten ==
    [][(Responds /\ resp'.op = "update" /\ resp'.status = 200) =>
          /\ DOMAIN db' = DOMAIN db
          /\ \A f \in Keys(Item(resp')) : db'[resp'.id][f] = Item(resp')[f]
          /\ \A f \in (Fields \ Keys(Item(resp'))) \cup {"fecha_creacion"} :
                db'[resp'.id][f] = db[resp'.id][f]
          /\ (\A f \in Fields : Item(resp')[f] # Null) =>
                \A f \in Fields \cup {"fecha_creacion"} :
                    db'[resp'.id][f] = ClienteUpdate(db[resp'.id], Data(resp'.body))[f]]_vars

\* The record created with a telefono by the previous request has been sent
\* telefono: null and now stores null.
C10_Witness ==
    /\ prevCreated = EmailB
    /\ resp.op = "update"
    /\ resp.status = 200
    /\ Item(resp).telefono = Null
    /\ db[resp.id].email = EmailB
    /\ db[resp.id].telefono = Null

\* ---- C11 ---------------------------------------------------------------
\* C11: an update answered 422 (validation) or 409 (refused by the store
\* and rolled back) writes nothing: the target record keeps every field,
\* fecha_actualizacion included, and every other record is unchanged.
C11_FailedUpdateChangesNothing ==
    [][(Responds /\ resp'.op = "update" /\ resp'.status \in {409, 422}) =>
          /\ DOMAIN db' = DOMAIN db
          /\ \A j \in DOMAIN db :
                \A f \in Fields \cup {"fecha_creacion", "fecha_actualizacion"} :
                    db'[j][f] = db[j][f]]_vars

\* An update that changed the email of a stored record was refused by the
\* store: the record still has its old email and another record holds the
\* one that was asked for.
C11_Witness ==
    /\ resp.op = "update"
    /\ resp.status = 409
    /\ resp.id \in DOMAIN db
    /\ db[resp.id].email # Item(resp).email
    /\ \E j \in DOMAIN db : j # resp.id /\ db[j].email = Item(resp).email

\* ---- C12 ---------------------------------------------------------------
\* C12: the id given to a newly created record was never given to any
\* record before, deleted records included: every new id is above the
\* highest id handed out so far.
C12_IdNeverReused ==
    [][\A i \in NewIds : i > seq]_vars

\* ---- C13 ---------------------------------------------------------------
\* C13: every record of a create answered 201, single or batch, has
\* fecha_creacion equal to fecha_actualizacion in the response.
C13_CreatedStampsEqual ==
    (resp.op \in {"create", "create_batch"} /\ resp.status = 201) =>
        \A i \in resp.ids : db[i].fecha_creacion = db[i].fecha_actualizacion

\* ---- C14 ---------------------------------------------------------------
\* C14: in every reachable state, every stored record has
\* fecha_actualizacion >= fecha_creacion (the clock never runs backwards).
C14_UpdatedNotBeforeCreated ==
    \A i \in DOMAIN db : db[i].fecha_actualizacion >= db[i].fecha_creacion

\* A record has been updated at a later reading of the clock than the one
\* it was created at.
C14_Witness ==
    /\ resp.op = "update"
    /\ resp.status = 200
    /\ db[resp.id].fecha_actualizacion > db[resp.id].fecha_creacion

\* ---- C15 ---------------------------------------------------------------
\* The body of the update names a key whose value differs from the stored
\* one.
ChangesRecord(r) ==
    \E f \in Keys(Item(r)) : Item(r)[f] # db[r.id][f]

\* C15 as claimed: every update answered 200 sets fecha_actualizacion to
\* the time of the update, also when the values sent equal the stored ones,
\* so that it is never earlier than before.
C15_UpdateStampsNow ==
    [][(Responds /\ resp'.op = "update" /\ resp'.status = 200) =>
          /\ db'[resp'.id].fecha_actualizacion = now
          /\ db'[resp'.id].fecha_actualizacion >= db[resp'.id].fecha_actualizacion]_vars

\* C15 as amended: an update answered 200, served with no other write in
\* between, sets fecha_actualizacion to the time of the update when it
\* changes a stored value and leaves it as it was when every value sent
\* equals the stored one; either way it is never earlier than before.
C15_ChangingUpdateStampsNow ==
    [][(Responds /\ resp'.op = "update" /\ resp'.status = 200) =>
          /\ ChangesRecord(resp') =>
                db'[resp'.id].fecha_actualizacion = now
          /\ ~ChangesRecord(resp') =>
                db'[resp'.id].fecha_actualizacion = db[resp'.id].fecha_actualizacion
          /\ db'[resp'.id].fecha_actualizacion >= db[resp'.id].fecha_actualizacion]_vars

\* An update answered 200 after the clock moved on has left the record's
\* fecha_actualizacion at the earlier time: the estado it sent was the
\* stored one.
C15_Witness ==
    /\ resp.op = "update"
    /\ resp.status = 200
    /\ Keys(Item(resp)) = {"estado"}
    /\ db[resp.id].fecha_actualizacion < now

\* ---- C16 ---------------------------------------------------------------
\* C16: a delete of an id that is not stored is answered 404 and changes
\* nothing; a delete of a stored id is answered 200 and removes that record
\* and no other; a delete or a get of the id deleted by the request just
\* before is answered 404.
C16_DeleteThenNotFound ==
    [][/\ (Responds /\ resp'.op = "delete") =>
             IF resp'.id \in DOMAIN db
             THEN /\ resp'.status = 200
                  /\ DOMAIN db' = DOMAIN db \ {resp'.id}
                  /\ \A j \in DOMAIN db' : db'[j] = db[j]
             ELSE /\ resp'.status = 404
                  /\ db' = db
       /\ (Responds /\ resp'.op \in {"delete", "get"}
             /\ prevDeleted # NoId /\ resp'.id = prevDeleted) =>
                /\ resp'.status = 404
                /\ db' = db]_vars

\* The second of two deletes of the same id in a row is answered 404 while
\* another record is still stored.
C16_Witness ==
    /\ resp.op = "delete"
    /\ resp.status = 404
    /\ prevDeleted = resp.id
    /\ DOMAIN db # {}

\* ---- C17 ---------------------------------------------------------------
\* The number a list request asks for: the one given, or the documented
\* default when the argument is omitted.
Asked(raw, default) == IF raw.kind = "absent" THEN default ELSE raw.n

\* C17: with page and per_page each omitted or an integer, a list is
\* answered 400 whenever page < 1, per_page < 1 or per_page > 100, and is
\* answered 200 whenever page >= 1, 1 <= per_page <= 100 and no estado is
\* given; an omitted page counts as 1 and an omitted per_page as 10.
C17_PageBounds ==
    (resp.op = "list" /\ resp.query.page.kind # "text"
       /\ resp.query.per_page.kind # "text") =>
        LET page == Asked(resp.query.page, 1)
            per_page == Asked(resp.query.per_page, 10)
        IN /\ (page < 1 \/ per_page < 1 \/ per_page > 100) => resp.status = 400
           /\ (page >= 1 /\ per_page >= 1 /\ per_page <= 100 /\ resp.query.estado = Absent) =>
                 /\ resp.status = 200
                 /\ resp.pagination.page = page
                 /\ resp.pagination.per_page = per_page

\* per_page=100 with page omitted is answered 200 for page 1.
C17_Witness ==
    /\ resp.op = "list"
    /\ resp.status = 200
    /\ resp.query.page = NoArg
    /\ resp.query.per_page = IntArg(100)
    /\ resp.pagination.page = 1
    /\ resp.pagination.total > 0

\* ---- C18 ---------------------------------------------------------------
\* C18: a list whose estado argument is given and is not exactly 'activo'
\* or 'inactivo', the empty string included, is answered 400; it is never
\* answered with unfiltered data.
C18_BadEstadoRefused ==
    (resp.op = "list" /\ resp.query.estado \notin {Absent, Activo, Inactivo}) =>
        resp.status = 400

\* ---- C19 ---------------------------------------------------------------
\* The stored ids that match an estado filter, and the place (from 0) of
\* one of them when they are put in ascending order.
MatchingIds(estado) ==
    {i \in DOMAIN db : estado # Absent => db[i].estado = estado}

Rank(S, m) == Cardinality({j \in S : j < m})

\* C19: a list answered 200 for page p, per_page n and an estado filter
\* that is omitted, 'activo' or 'inactivo' returns, in ascending order of
\* id, exactly the matching records at places (p-1)*n .. p*n-1, with total
\* the number of matching records and pages = ceil(total / n); a page
\* beyond the data is answered 200 with an empty data array and the true
\* total.
C19_PageContents ==
    (resp.op = "list" /\ resp.status = 200
       /\ resp.query.estado \in {Absent, Activo, Inactivo}) =>
        LET M == MatchingIds(resp.query.estado)
            pg == resp.pagination
            first == (pg.page - 1) * pg.per_page
            last == pg.page * pg.per_page - 1
            data == pg.data
        IN /\ pg.total = Cardinality(M)
           /\ pg.pages * pg.per_page >= pg.total
           /\ pg.pages = 0 \/ (pg.pages - 1) * pg.per_page < pg.total
           /\ \A k \in 1..Len(data) : data[k] \in M /\ Rank(M, data[k]) = first + k - 1
           /\ \A m \in M : (Rank(M, m) >= first /\ Rank(M, m) <= last) =>
                               \E k \in 1..Len(data) : data[k] = m
           /\ first >= pg.total => data = <<>>

\* Page 2 of a listing with one record per page holds the second of two
\* stored records.
C19_Witness ==
    /\ resp.op = "list"
    /\ resp.status = 200
    /\ resp.query.page = IntArg(2)
    /\ resp.query.per_page = IntArg(1)
    /\ resp.pagination.total = 2
    /\ resp.pagination.pages = 2
    /\ Len(resp.pagination.data) = 1

\* Page 999 of a listing of stored records is answered 200 with no data
\* and the true total.
C19_BeyondLastPage ==
    /\ resp.op = "list"
    /\ resp.status = 200
    /\ resp.query.page = IntArg(999)
    /\ resp.pagination.total > 0
    /\ resp.pagination.data = <<>>

\* ---- C20 ---------------------------------------------------------------
\* The step answers a request at its commit, and the client it answers.
AtCommit == \E c \in Clients : Commits(c)

Committer == CHOOSE c \in Clients : Commits(c)

\* The kinds of failure, told by what the handler found: a body or a query
\* it cannot use, an id that is not stored, a body the schema refuses, a
\* write the store refuses, and a row that vanished under an update.
InvalidInput(r) ==
    \/ r.op \in {"create", "create_batch"} /\ Falsy(r.body)
    \/ r.op = "update" /\ r.id \in DOMAIN db /\ Falsy(r.body)
    \/ /\ r.op = "list"
       /\ \/ r.query.page.kind = "int" /\ r.query.page.n < 1
          \/ r.query.per_page.kind = "int"
               /\ (r.query.per_page.n < 1 \/ r.query.per_page.n > 100)
          \/ r.query.estado \notin {Absent, <<>>, Activo, Inactivo}

NotFound(r) ==
    r.op \in {"get", "update", "delete"} /\ ~AtCommit /\ r.id \notin DOMAIN db

ValidationFailed(r) ==
    /\ ~AtCommit
    /\ ~Falsy(r.body)
    /\ \/ r.op = "create" /\ LoadErrors(Item(r), FALSE, db, NoId) # {}
       \/ r.op = "create_batch" /\ LoadManyErrors(r.body.items, db) # {}
       \/ r.op = "update" /\ r.id \in DOMAIN db /\ LoadErrors(Item(r), TRUE, db, r.id) # {}

Conflict(r) ==
    /\ AtCommit
    /\ r.op = "update" => r.id \in DOMAIN db
    /\ \/ Collides(req[Committer])
       \/ r.op = "create_batch"
            /\ \E e \in BatchEmails(r.body.items) : TwoItemsWith(r.body.items, e)

Internal(r) == AtCommit /\ r.op = "update" /\ r.id \notin DOMAIN db

BreaksFieldRule(r) ==
    r.body.kind = "obj" /\ ~Falsy(r.body) /\ FieldErrors(Item(r), TRUE) # {}

AsksTakenEmail(r) ==
    /\ r.body.kind = "obj"
    /\ ~Falsy(r.body)
    /\ FieldErrors(Item(r), TRUE) = {}
    /\ Item(r).email \in Emails(db)

BlankNombre(r) ==
    /\ r.body.kind = "obj"
    /\ FieldErrors(Item(r), TRUE) = {}
    /\ IsText(Item(r).nombre)
    /\ \A i \in 1..Len(Item(r).nombre) : Item(r).nombre[i] = " "

\* C21 as claimed: an update that is refused before its commit reports the
\* first kind that applies in the order INVALID_INPUT, VALIDATION_ERROR,
\* CONFLICT, NOT_FOUND: 400 for an empty body, else 422 for a broken field
\* rule, else a duplicate-email refusal, whether or not the id is stored.
C21_InputBeforeNotFound ==
    [][(Responds /\ resp'.op = "update" /\ ~AtCommit) =>
          /\ Falsy(resp'.body) => resp'.status = 400
          /\ BreaksFieldRule(resp') => resp'.status = 422
          /\ AsksTakenEmail(resp') => resp'.status \in {409, 422}]_vars

\* C21 as amended: an update that is refused before its commit reports the
\* first kind that applies in the order NOT_FOUND, INVALID_INPUT,
\* VALIDATION_ERROR: 404 when the id is not stored, whatever the body; else
\* 400 for an empty body; else 422, and then the body does break a field
\* rule, has a blank nombre or asks for a stored email.
C21_NotFoundFirst ==
    [][(Responds /\ resp'.op = "update" /\ ~AtCommit) =>
          /\ resp'.status =
                IF resp'.id \notin DOMAIN db THEN 404
                ELSE IF Falsy(resp'.body) THEN 400
                ELSE 422
          /\ resp'.status = 422 =>
                BreaksFieldRule(resp') \/ BlankNombre(resp') \/ AsksTakenEmail(resp')]_vars

\* An update of an id that is not stored, with a body that breaks a field
\* rule, has been answered 404 while other records are stored.
C21_Witness ==
    /\ resp.op = "update"
    /\ resp.status = 404
    /\ BreaksFieldRule(resp)
    /\ DOMAIN db # {}

\* ---- C22 ---------------------------------------------------------------
\* The answer has the uniform error shape.
UniformError(r) ==
    /\ ~r.success
    /\ r.status \in {400, 404, 409, 422, 500}
    /\ r.tipo # "none"
    /\ r.message # ""
    /\ {"type", "message"} \subseteq r.errorKeys
    /\ r.errorKeys \subseteq {"type", "message", "details"}
    /\ "details" \in r.errorKeys <=> r.details # {}

\* C22: every request, whatever fails while it is handled (validation,
\* integrity violation, APIError or any other exception of the store), ends
\* in an answer; an answer that is not a success has success=false, an
\* error type and message, and a details key exactly when details is not
\* empty.
C22_UniformErrorShape ==
    [][/\ \A c \in Clients : Commits(c) => Responds
       /\ Responds => (resp'.status \in {200, 201} /\ resp'.success) \/ UniformError(resp')]_vars

\* A create whose commit failed in the store has been answered in the
\* uniform shape, without details.
C22_Witness ==
    /\ resp.op = "create"
    /\ resp.logged \in StoreErrors
    /\ UniformError(resp)
    /\ resp.errorKeys = {"type", "message"}

\* ---- C23 ---------------------------------------------------------------
\* The step answers a write whose commit failed in the store for another
\* reason than an integrity violation.
StoreFault == Responds /\ AtCommit /\ resp'.logged \in StoreErrors

\* C23: when the store fails a create, an update or a delete for another
\* reason than an integrity violation, the handler rolls the transaction
\* back before it answers, the table is as it was before the request, and
\* the answer is 500.
C23_FaultRolledBack ==
    [][StoreFault =>
          /\ resp'.rollback
          /\ db' = db
          /\ resp'.status = 500]_vars

\* ---- C24 ---------------------------------------------------------------
\* C24: every answer with status 500 is given after the failure was
\* logged, and its body is a fixed text that does not depend on the
\* exception: the text of the fallback handler, or, for a delete that
\* failed in its try block, the text of that handler; it has no details.
C24_GenericInternalError ==
    resp.status = 500 =>
        /\ resp.logged # "none"
        /\ resp.details = {}
        /\ resp.errorKeys = {"type", "message"}
        /\ <<resp.tipo, resp.message>> =
              IF resp.op = "delete" /\ resp.rollback
              THEN <<"API_ERROR", "Error al eliminar el cliente">>
              ELSE <<"INTERNAL_SERVER_ERROR", "Error inesperado en el servidor.">>

\* An update that failed in the store with a TimeoutError has been logged
\* and answered with the fallback text.
C24_Witness ==
    /\ resp.op = "update"
    /\ resp.status = 500
    /\ resp.logged = "TimeoutError"
    /\ resp.id \in DOMAIN db
    /\ resp.message = "Error inesperado en el servidor."

\* ---- C25 ---------------------------------------------------------------
\* The keys of a create object that break their own rule: a required key
\* that is missing or null, a nombre or telefono of the wrong length, an
\* email that is malformed or too long, an estado that is not one of the
\* two values.
Violating(d) ==
    {f \in {"nombre"} : ~IsText(d.nombre) \/ Len(d.nombre) < 1 \/ Len(d.nombre) > 100}
    \cup {f \in {"email"} :
             ~IsText(d.email) \/ ~ValidEmailText(d.email) \/ Len(d.email) > 120}
    \cup {f \in {"telefono"} : IsText(d.telefono) /\ Len(d.telefono) > 20}
    \cup {f \in {"estado"} : d.estado # Absent /\ d.estado \notin {Activo, Inactivo}}

LacksRequired(r) ==
    r.op = "create" /\ r.body.kind = "obj"
       /\ (Item(r).nombre = Absent \/ Item(r).email = Absent)

\* C25 as claimed: every create object that lacks nombre or email is
\* answered 422 and stores nothing, and the details name every key of the
\* object that breaks its rule.
C25_MissingRequiredIs422 ==
    [][(Responds /\ LacksRequired(resp')) =>
          /\ resp'.status = 422
          /\ db' = db
          /\ \A f \in Violating(Item(resp')) : <<NoIdx, f>> \in resp'.details]_vars

\* C25 as amended: every create object that names at least one key and
\* lacks nombre or email is answered 422 and stores nothing, and the
\* details name every key that breaks its rule; the object without any key
\* is answered 400 and stores nothing.
C25_NonEmptyMissingRequiredIs422 ==
    [][(Responds /\ LacksRequired(resp')) =>
          /\ db' = db
          /\ IF Keys(Item(resp')) = {} /\ Item(resp').otros = {}
             THEN resp'.status = 400
             ELSE /\ resp'.status = 422
                  /\ \A f \in Violating(Item(resp')) : <<NoIdx, f>> \in resp'.details]_vars

\* A create without nombre and with a malformed email has been answered
\* 422 naming both.
C25_Witness ==
    /\ resp.op = "create"
    /\ resp.status = 422
    /\ resp.body.kind = "obj"
    /\ Item(resp).nombre = Absent
    /\ Item(resp).email = EmailBad
    /\ {<<NoIdx, "nombre">>, <<NoIdx, "email">>} \subseteq resp.details

\* ---- C26 ---------------------------------------------------------------
\* A body with nothing in it: none, null, the empty list or the object
\* without keys.
EmptyBody(b) ==
    \/ b.kind = "none"
    \/ b.kind = "list" /\ Len(b.items) = 0
    \/ b.kind = "obj" /\ Keys(b.items[1]) = {} /\ b.items[1].otros = {}

C27_TypeIsValidationError ==
    (resp.op \in {"create", "create_batch", "update"} /\ resp.details # {}) =>
        /\ resp.status = 422
        /\ resp.tipo = "VALIDATION_ERROR"

\* ---- C28 ---------------------------------------------------------------
\* A create or update whose object names a nombre text and is otherwise
\* sound has been validated.
NombreJudged(r) ==
    /\ r.op \in {"create", "update"} /\ r.body.kind = "obj"
    /\ IsText(Item(r).nombre)
    /\ Violating(Item(r)) \ {"nombre"} \subseteq
           (IF r.op = "update" /\ Item(r).email = Absent THEN {"email"} ELSE {})
    /\ Item(r).otros = {}
    /\ r.status \in {200, 201, 409, 422}

NombreRefused(r) == <<NoIdx, "nombre">> \in r.details

C28_StoredUntrimmed ==
    /\ resp.op = "update" /\ resp.status = 200
    /\ Item(resp).nombre = NombrePaddedFull
    /\ db[resp.id].nombre = NombrePaddedFull

\* ---- C29 ---------------------------------------------------------------
\* The response is to a body that names id or fecha_creacion.
NamesReadOnly(r) ==
    r.body.kind = "obj" /\ Item(r).otros \cap {"id", "fecha_creacion"} # {}

\* C29: whatever create, update or delete is served, every record that
\* stays stored keeps its id and its fecha_creacion; an update neither adds
\* nor removes an id; and a body that names id or fecha_creacion changes no
\* stored record at all.
C29_IdAndCreationFixed ==
    [][/\ \A j \in DOMAIN db \cap DOMAIN db' :
              db'[j].fecha_creacion = db[j].fecha_creacion
       /\ (Responds /\ resp'.op = "update") => DOMAIN db' = DOMAIN db
       /\ (Responds /\ NamesReadOnly(resp')) => db' = db]_vars

\* An update that names id has been answered for a record created at an
\* earlier reading of the clock.
C29_Witness ==
    /\ resp.op = "update"
    /\ NamesReadOnly(resp)
    /\ resp.id \in DOMAIN db
    /\ db[resp.id].fecha_creacion < now

\* A record created at an earlier reading of the clock has been changed.
C29_ChangedLater ==
    /\ resp.op = "update" /\ resp.status = 200
    /\ db[resp.id].fecha_creacion < db[resp.id].fecha_actualizacion

\* ---- C30 ---------------------------------------------------------------
WellFormed(row) ==
    /\ row.estado \in {Activo, Inactivo}
    /\ IsText(row.nombre) /\ Strip(row.nombre) # <<>> /\ Len(row.nombre) <= NombreMax
    /\ IsText(row.email) /\ Len(row.email) <= EmailMax
    /\ row.telefono = Null \/ (IsText(row.telefono) /\ Len(row.telefono) <= TelefonoMax)

\* C30: every stored record is well-formed: estado is activo or inactivo,
\* nombre is not blank and has at most 100 characters, email is not null
\* and has at most 120 characters, telefono is null or has at most 20
\* characters; a record created without estado is activo, and stays so
\* until an update is answered.
C30_RecordsWellFormed ==
    [][/\ \A i \in DOMAIN db' : WellFormed(db'[i])
       /\ (Responds /\ resp'.op \in {"create", "create_batch"} /\ resp'.status = 201) =>
              \A k \in 1..Len(resp'.body.items) :
                  resp'.body.items[k].estado = Absent =>
                      \E i \in resp'.ids :
                          /\ db'[i].email = resp'.body.items[k].email
                          /\ db'[i].estado = Activo
       /\ ~(Responds /\ resp'.op = "update") =>
              \A i \in DOMAIN db \cap DOMAIN db' : db'[i].estado = db[i].estado]_vars

\* An update to an estado outside the two values has been refused for a
\* record whose nombre and telefono are as long as the rules allow.
C30_Witness ==
    /\ resp.op = "update" /\ resp.status = 422
    /\ Item(resp).estado = Otro
    /\ resp.id \in DOMAIN db
    /\ Len(db[resp.id].nombre) = NombreMax
    /\ db[resp.id].telefono # Null /\ Len(db[resp.id].telefono) = TelefonoMax
    /\ \E j \in DOMAIN db : Len(db[j].email) = EmailMax

====
